---- MODULE Spec2Model ----
(***************************************************************************)
(* Verification model of targer's tagging core:                            *)
(*   - Evaluator.get_f1_from_components_sequences (classes/evaluator.py)    *)
(*   - TaggerBiRNNCRF.predict_idx_from_words / predict_tags_from_words /    *)
(*     get_loss (models/tagger_birnn_crf.py)                                *)
(* Three specifications share the module: SpecEval, SpecPredict, SpecLoss.  *)
(* Indices are 1-based here where Python's are 0-based; slices [i:j] keep   *)
(* Python's half-open offsets.                                              *)
(***************************************************************************)
EXTENDS Integers, Sequences, FiniteSets, TLC

VARIABLES
    \* ---- Evaluator.get_f1_from_components_sequences
    targets_tag_components_sequences,   \* argument: gold span sequences
    outputs_tag_components_sequences,   \* argument: predicted span sequences
    match_alpha_ratio,                  \* argument, in thousandths (1000 = 1.0)
    pair,                               \* number of zip() pairs consumed
    TP, FN, FP,                         \* the local counters
    ret,                                \* returned tuple, <<>> before the return
    epc,                                \* "idle" | "loop" | "done"
    \* ---- TaggerBiRNNCRF.predict_tags_from_words
    word_sequences,                     \* argument
    batch_size,                         \* argument (after the -1 default)
    n,                                  \* loop variable of range(batch_num)
    output_tag_sequences,               \* the accumulated result list
    slices,                             \* <<i, j>> of every predict_idx_from_words call
    ppc,                                \* "idle" | "loop" | "done"
    \* ---- TaggerBiRNNCRF.get_loss
    word_sequences_train_batch,         \* argument
    tag_sequences_train_batch,          \* argument (gold tag indices)
    dropout_hit,                        \* positions zeroed by self.dropout in this call
    numerator,                          \* crf_layer.numerator per sequence
    denominator,                        \* crf_layer.denominator per sequence
    nll_loss,                           \* returned loss
    lpc                                 \* "idle" | "call" | "done"

evalVars == <<targets_tag_components_sequences, outputs_tag_components_sequences,
              match_alpha_ratio, pair, TP, FN, FP, ret, epc>>
predVars == <<word_sequences, batch_size, n, output_tag_sequences, slices, ppc>>
lossVars == <<word_sequences_train_batch, tag_sequences_train_batch, dropout_hit,
              numerator, denominator, nll_loss, lpc>>
vars == <<evalVars, predVars, lossVars>>

(***************************************************************************)
(* Bounds                                                                  *)
(***************************************************************************)
MaxSeqs == 2        \* sequences per corpus handed to the evaluator
MaxSpans == 2       \* spans per corpus handed to the evaluator

\* All sequences over S of length 0..k
SeqsUpTo(S, k) == UNION {[1..m -> S] : m \in 0..k}

Min(a, b) == IF a <= b THEN a ELSE b
Max(a, b) == IF a >= b THEN a ELSE b

\* f as a table of computed values (an array, tensor or list already built)
Table(f) == f @@ <<>>

RECURSIVE SumLens(_)
SumLens(ss) == IF ss = <<>> THEN 0 ELSE Len(Head(ss)) + SumLens(Tail(ss))

(***************************************************************************)
(* Evaluator                                                               *)
(***************************************************************************)
\* TagComponent values: label and surface value (a set of tokens).
TagComponents ==
    { [label |-> "PER", value |-> {"john"}],
      [label |-> "PER", value |-> {"john", "smith"}],
      [label |-> "LOC", value |-> {"paris"}] }

\* match_alpha_ratio values, in thousandths: 0.5 and 1.0
MatchRatios == {500, 1000}

\* Normalised closeness of two surface values, in thousandths: 1000 for
\* identical values, 0 for values with nothing in common, symmetric.
similarity(a, b) ==
    (2 * Cardinality(a \cap b) * 1000) \div (Cardinality(a) + Cardinality(b))

\* TagComponent.is_equal(self, tc, match_alpha_ratio)
is_equal(self, tc, ratio) ==
    /\ self.label = tc.label
    /\ similarity(self.value, tc.value) >= ratio

\* Mutant: the scan runs over the predicted spans of every sequence of the corpus.
found_output_any_sequence(target_tc, outputs_tag_components, ratio) ==
    \E p \in 1..Len(outputs_tag_components_sequences) :
        \E o \in 1..Len(outputs_tag_components_sequences[p]) :
            is_equal(outputs_tag_components_sequences[p][o], target_tc, ratio)

\* lines 29-33: scan outputs_tag_components for one that is_equal target_tc
found_output(target_tc, outputs_tag_components, ratio) ==
    \E o \in 1..Len(outputs_tag_components) :
        is_equal(outputs_tag_components[o], target_tc, ratio)

\* Mutant: the second scan compares for exact equality, ignoring the ratio.
found_target_exact(output_tc, targets_tag_components, ratio) ==
    \E t \in 1..Len(targets_tag_components) : targets_tag_components[t] = output_tc

\* lines 39-43: scan targets_tag_components for one that is_equal output_tc
found_target(output_tc, targets_tag_components, ratio) ==
    \E t \in 1..Len(targets_tag_components) :
        is_equal(targets_tag_components[t], output_tc, ratio)

\* Mutant: FP is incremented when a gold span was found instead of when none was.
count_pair_fp_on_found(c, targets_tag_components, outputs_tag_components, ratio) ==
    LET hit  == {t \in 1..Len(targets_tag_components) :
                    found_output(targets_tag_components[t], outputs_tag_components, ratio)}
        miss == (1..Len(targets_tag_components)) \ hit
        lone == {o \in 1..Len(outputs_tag_components) :
                    found_target(outputs_tag_components[o], targets_tag_components, ratio)}
    IN  [TP |-> c.TP + Cardinality(hit),
         FN |-> c.FN + Cardinality(miss),
         FP |-> c.FP + Cardinality(lone)]

\* Mutant: the counters are zeroed inside the loop, once per sequence pair.
count_pair_reset(c, targets_tag_components, outputs_tag_components, ratio) ==
    LET hit  == {t \in 1..Len(targets_tag_components) :
                    found_output(targets_tag_components[t], outputs_tag_components, ratio)}
        miss == (1..Len(targets_tag_components)) \ hit
        lone == {o \in 1..Len(outputs_tag_components) :
                    ~found_target(outputs_tag_components[o], targets_tag_components, ratio)}
    IN  [TP |-> Cardinality(hit),
         FN |-> Cardinality(miss),
         FP |-> Cardinality(lone)]

\* lines 28-45: the body of the zip loop for one pair, applied to counters c
count_pair(c, targets_tag_components, outputs_tag_components, ratio) ==
    LET hit  == {t \in 1..Len(targets_tag_components) :
                    found_output(targets_tag_components[t], outputs_tag_components, ratio)}
        miss == (1..Len(targets_tag_components)) \ hit
        lone == {o \in 1..Len(outputs_tag_components) :
                    ~found_target(outputs_tag_components[o], targets_tag_components, ratio)}
    IN  [TP |-> c.TP + Cardinality(hit),
         FN |-> c.FN + Cardinality(miss),
         FP |-> c.FP + Cardinality(lone)]

\* zip(targets, outputs): the number of pairs
zip_len(targets, outputs) == Min(Len(targets), Len(outputs))

\* Mutant: F1's denominator counts TP once.
rates_f1_single_tp(c) ==
    [Precision |-> [num |-> c.TP * 100,     den |-> Max(c.TP + c.FP, 1)],
     Recall    |-> [num |-> c.TP * 100,     den |-> Max(c.TP + c.FN, 1)],
     F1        |-> [num |-> 2 * c.TP * 100, den |-> Max(c.TP + c.FP + c.FN, 1)],
     TP |-> c.TP, FP |-> c.FP, FN |-> c.FN]

\* lines 46-49: rates as exact fractions num/den (Python float division)
rates(c) ==
    [Precision |-> [num |-> c.TP * 100,     den |-> Max(c.TP + c.FP, 1)],
     Recall    |-> [num |-> c.TP * 100,     den |-> Max(c.TP + c.FN, 1)],
     F1        |-> [num |-> 2 * c.TP * 100, den |-> Max(2 * c.TP + c.FP + c.FN, 1)],
     TP |-> c.TP, FP |-> c.FP, FN |-> c.FN]

\* lines 26-49 as a function of the arguments
RECURSIVE accumulate(_, _, _, _, _)
accumulate(c, targets, outputs, ratio, p) ==
    IF p > zip_len(targets, outputs) THEN c
    ELSE accumulate(count_pair(c, targets[p], outputs[p], ratio),
                    targets, outputs, ratio, p + 1)

get_f1_from_components_sequences(targets, outputs, ratio) ==
    rates(accumulate([TP |-> 0, FN |-> 0, FP |-> 0], targets, outputs, ratio, 1))

Corpora ==
    {c \in SeqsUpTo(SeqsUpTo(TagComponents, MaxSpans), MaxSeqs) : SumLens(c) <= MaxSpans}

EvalIdle ==
    /\ targets_tag_components_sequences = <<>>
    /\ outputs_tag_components_sequences = <<>>
    /\ match_alpha_ratio = 1000
    /\ pair = 0 /\ TP = 0 /\ FN = 0 /\ FP = 0
    /\ ret = <<>>
    /\ epc = "idle"

\* line 26: entry with arbitrary arguments, counters zeroed
EvalInit ==
    /\ targets_tag_components_sequences \in Corpora
    /\ outputs_tag_components_sequences \in Corpora
    /\ match_alpha_ratio \in MatchRatios
    /\ pair = 0 /\ TP = 0 /\ FN = 0 /\ FP = 0
    /\ ret = <<>>
    /\ epc = "loop"

\* lines 27-45: one iteration of the zip loop
EvalPair ==
    /\ epc = "loop"
    /\ pair < zip_len(targets_tag_components_sequences, outputs_tag_components_sequences)
    /\ LET c == count_pair([TP |-> TP, FN |-> FN, FP |-> FP],
                           targets_tag_components_sequences[pair + 1],
                           outputs_tag_components_sequences[pair + 1],
                           match_alpha_ratio)
       IN  /\ TP' = c.TP
           /\ FN' = c.FN
           /\ FP' = c.FP
    /\ pair' = pair + 1
    /\ UNCHANGED <<targets_tag_components_sequences, outputs_tag_components_sequences,
                   match_alpha_ratio, ret, epc>>

\* lines 46-49: zip exhausted, derive the rates and return
EvalReturn ==
    /\ epc = "loop"
    /\ pair = zip_len(targets_tag_components_sequences, outputs_tag_components_sequences)
    /\ ret' = rates([TP |-> TP, FN |-> FN, FP |-> FP])
    /\ epc' = "done"
    /\ UNCHANGED <<targets_tag_components_sequences, outputs_tag_components_sequences,
                   match_alpha_ratio, pair, TP, FN, FP>>

(***************************************************************************)
(* Tagger: model parameters and the layers it calls                        *)
(***************************************************************************)
MaxN == 5           \* sequences handed to predict_tags_from_words
MaxBatch == 6       \* largest batch_size tried

\* The word sequences the inputs are drawn from: lengths 1..3, with
\* different sequences of equal length.
WordSeqs == { <<"w1">>, <<"w2">>, <<"w1", "w2">>, <<"w2", "w1", "w1">> }

class_num == 2                      \* constructor argument
pad_idx == 0                        \* tag_seq_indexer.pad_idx
sos_idx == class_num + 1
states_num == class_num + 2
States == 0..(states_num - 1)
NegInf == -9999                     \* score of a forbidden transition / start state

\* max(len(seq)) over a batch (0 for the empty batch)
RECURSIVE max_seq_len(_)
max_seq_len(seqs) ==
    IF seqs = <<>> THEN 0 ELSE Max(Len(Head(seqs)), max_seq_len(Tail(seqs)))

\* LayerCRF.transition_matrix[to][from]: no transition enters pad or sos.
transition_matrix(to, from) ==
    IF to = pad_idx \/ to = sos_idx THEN NegInf
    ELSE IF from = sos_idx THEN 0
    ELSE IF from = to THEN 0
    ELSE 1

\* tag_seq_indexer.idx2items: tag index -> tag, per sequence
idx2item == [s \in 0..class_num |-> IF s = pad_idx THEN "<pad>"
                                     ELSE IF s = 1 THEN "O" ELSE "B-PER"]
idx2items(idx_sequences) ==
    Table([b \in 1..Len(idx_sequences) |->
        Table([t \in 1..Len(idx_sequences[b]) |-> idx2item[idx_sequences[b][t]]])])

\* classes.utils.argsort_sequences_by_lens: stable sort by descending length.
\* reverse_sort_indices[b] is the place of input b in the sorted order,
\* sort_indices[p] is the input standing at place p.
argsort_sequences_by_lens(seqs) ==
    LET N == Len(seqs)
        place(b) == 1 + Cardinality({c \in 1..N :
                        \/ Len(seqs[c]) > Len(seqs[b])
                        \/ (Len(seqs[c]) = Len(seqs[b]) /\ c < b)})
        reverse_sort_indices == Table([b \in 1..N |-> place(b)])
        sort_indices == Table([q \in 1..N |-> CHOOSE b \in 1..N : reverse_sort_indices[b] = q])
    IN  [sort_indices |-> sort_indices, reverse_sort_indices |-> reverse_sort_indices]

\* DatasetsBank.get_sequences_by_indices: [sequences[i] for i in indices]
get_sequences_by_indices(sequences, indices) ==
    Table([q \in 1..Len(indices) |-> sequences[indices[q]]])

\* TaggerBase.get_mask: batch x max_seq_len, 1 on real positions, 0 on padding
get_mask(seqs) ==
    Table([b \in 1..Len(seqs) |->
        Table([t \in 1..max_seq_len(seqs) |-> IF t <= Len(seqs[b]) THEN 1 ELSE 0])])

\* TaggerBase.apply_mask: features * mask
apply_mask(features, mask) ==
    Table([b \in 1..Len(features) |->
        Table([t \in 1..Len(features[b]) |->
            Table([s \in States |-> features[b][t][s] * mask[b][t]])])])

\* Embedding + BiRNN output at one position: 0 on padding, else a code of the
\* word and of whether a word follows it (the backward direction).
rnn_output_h(seq, t) ==
    IF t > Len(seq) THEN 0
    ELSE (IF seq[t] = "w1" THEN 1 ELSE 2) + (IF t < Len(seq) THEN 2 ELSE 0)

\* lin_layer: hidden code -> score per state, with a bias on state 2
lin_layer(h, s) ==
    IF s = 1 THEN (IF h \in {1, 4} THEN 1 ELSE 0)
    ELSE IF s = 2 THEN (IF h \in {0, 2, 3} THEN 1 ELSE 0)
    ELSE 0

\* lines 50-55: _forward_birnn; drop is the set of positions self.dropout
\* zeroes (empty in eval mode).  Shape batch x max_seq_len x states_num.
forward_birnn(seqs, drop) ==
    Table([b \in 1..Len(seqs) |->
        Table([t \in 1..max_seq_len(seqs) |->
            Table([s \in States |->
                lin_layer(IF t \in drop THEN 0 ELSE rnn_output_h(seqs[b], t), s)])])])

\* lowest index of S at which f is largest
ArgMaxLowest(f, S) ==
    CHOOSE i \in S : \A k \in S : f[i] > f[k] \/ (f[i] = f[k] /\ i <= k)

\* LayerCRF.decode_viterbi for one row: best[s] = score and path of the best
\* path ending in state s after the positions before t; masked positions
\* leave it unchanged.
RECURSIVE viterbi_row(_, _, _, _)
viterbi_row(feat, mask_row, t, best) ==
    IF t > Len(feat) THEN best[ArgMaxLowest([s \in States |-> best[s].score], States)].path
    ELSE IF mask_row[t] = 0 THEN viterbi_row(feat, mask_row, t + 1, best)
    ELSE LET prev == Table([s \in States |-> ArgMaxLowest(
                 Table([r \in States |-> best[r].score + transition_matrix(s, r)]), States)])
             step == Table([s \in States |->
                 [score |-> best[prev[s]].score + transition_matrix(s, prev[s]) + feat[t][s],
                  path  |-> Append(best[prev[s]].path, s)]])
         IN  viterbi_row(feat, mask_row, t + 1, step)

decode_viterbi(features, mask) ==
    Table([b \in 1..Len(features) |->
        viterbi_row(features[b], mask[b], 1,
            Table([s \in States |-> [score |-> IF s = sos_idx THEN 0 ELSE NegInf,
                                     path  |-> <<>>]]))])

\* Mutant: the decoded sequences are returned in sorted order.
predict_idx_unrestored(seqs) ==
    LET order == argsort_sequences_by_lens(seqs)
        sorted == get_sequences_by_indices(seqs, order.sort_indices)
        mask == get_mask(sorted)
        features_rnn_compressed == apply_mask(forward_birnn(sorted, {}), mask)
    IN  decode_viterbi(features_rnn_compressed, mask)

\* lines 66-74: predict_idx_from_words
predict_idx_from_words(seqs) ==
    LET order == argsort_sequences_by_lens(seqs)
        sorted == get_sequences_by_indices(seqs, order.sort_indices)
        mask == get_mask(sorted)
        features_rnn_compressed == apply_mask(forward_birnn(sorted, {}), mask)
        output_idx_sequences == decode_viterbi(features_rnn_compressed, mask)
    IN  get_sequences_by_indices(output_idx_sequences, order.reverse_sort_indices)

\* word_sequences[i:j] with Python's offsets
Slice(seqs, i, j) == Table([q \in 1..(Min(j, Len(seqs)) - i) |-> seqs[i + q]])

\* line 80: math.floor(len(word_sequences) / batch_size)
batch_num == Len(word_sequences) \div batch_size

\* Mutant: the last sub-batch stops at (n + 1)*batch_size like the others.
slice_end_fixed(k) == (k + 1) * batch_size

\* lines 84-87: the end offset j of sub-batch k
slice_end(k) ==
    IF k < batch_num - 1 THEN (k + 1) * batch_size ELSE Len(word_sequences)

\* lines 76-81: entry with arbitrary arguments
PredInit ==
    /\ word_sequences \in SeqsUpTo(WordSeqs, MaxN)
    /\ batch_size \in 1..MaxBatch
    /\ n = 0
    /\ output_tag_sequences = <<>>
    /\ slices = <<>>
    /\ ppc = "loop"

\* lines 82-92: one iteration of the loop over range(batch_num)
PredictBatch ==
    /\ ppc = "loop"
    /\ n < batch_num
    /\ LET i == n * batch_size
           j == slice_end(n)
           curr_output_idx == predict_idx_from_words(Slice(word_sequences, i, j))
           curr_output_tag_sequences == idx2items(curr_output_idx)
       IN  /\ output_tag_sequences' = output_tag_sequences \o curr_output_tag_sequences
           /\ slices' = Append(slices, <<i, j>>)
    /\ n' = n + 1
    /\ UNCHANGED <<word_sequences, batch_size, ppc>>

\* line 93: the loop is over, return output_tag_sequences
PredictReturn ==
    /\ ppc = "loop"
    /\ n = batch_num
    /\ ppc' = "done"
    /\ UNCHANGED <<word_sequences, batch_size, n, output_tag_sequences, slices>>

(***************************************************************************)
(* Training loss.  Scores are base-2 logarithms; a log-domain value is kept *)
(* exactly as the fraction it is the logarithm of: [num, den] stands for    *)
(* log2(num / den).                                                         *)
(***************************************************************************)
MaxTrainBatch == 2  \* sequences per training batch

RECURSIVE Pow2(_)
Pow2(x) == IF x = 0 THEN 1 ELSE 2 * Pow2(x - 1)

\* 2^x of a score; a forbidden (NegInf) score weighs nothing
Weight(x) == IF x <= NegInf THEN 0 ELSE Pow2(x)

LogOf(w) == [num |-> w, den |-> 1]
LogSub(a, b) == [num |-> a.num * b.den, den |-> a.den * b.num]
LogNeg(a) == [num |-> a.den, den |-> a.num]
LogLeq(a, b) == a.num * b.den <= b.num * a.den

\* sum of a list of log-domain values (the log of the product)
RECURSIVE LogSum(_)
LogSum(xs) ==
    IF xs = <<>> THEN [num |-> 1, den |-> 1]
    ELSE LET r == LogSum(Tail(xs))
         IN  [num |-> Head(xs).num * r.num, den |-> Head(xs).den * r.den]

\* torch.mean: the sum divided by the number of entries
LogMean(xs) == [sum |-> LogSum(xs), count |-> Len(xs)]

\* tag_seq_indexer.items2tensor: gold tags padded with pad_idx to max_seq_len
items2tensor(tag_sequences) ==
    Table([b \in 1..Len(tag_sequences) |->
        Table([t \in 1..max_seq_len(tag_sequences) |->
            IF t <= Len(tag_sequences[b]) THEN tag_sequences[b][t] ELSE pad_idx])])

\* LayerCRF.numerator for one row: emission of the gold tag plus transition
\* from the previous gold tag (sos before position 1), on masked positions
RECURSIVE gold_path_score(_, _, _, _)
gold_path_score(feat, tags, mask_row, t) ==
    IF t > Len(feat) THEN 0
    ELSE (feat[t][tags[t]]
            + transition_matrix(tags[t], IF t = 1 THEN sos_idx ELSE tags[t - 1]))
         * mask_row[t]
         + gold_path_score(feat, tags, mask_row, t + 1)

crf_numerator(features, targets_tensor, mask) ==
    Table([b \in 1..Len(features) |->
        LogOf(Weight(gold_path_score(features[b], targets_tensor[b], mask[b], 1)))])

\* LayerCRF.denominator for one row: the forward algorithm.  alpha[s] is the
\* summed weight of all paths ending in state s; masked positions leave it
\* unchanged; the result is the log of the sum over the final states.
RECURSIVE SumOver(_, _)
SumOver(f, S) ==
    IF S = {} THEN 0
    ELSE LET x == CHOOSE y \in S : TRUE IN f[x] + SumOver(f, S \ {x})

RECURSIVE forward_row(_, _, _, _)
forward_row(feat, mask_row, t, alpha) ==
    IF t > Len(feat) THEN SumOver(alpha, States)
    ELSE IF mask_row[t] = 0 THEN forward_row(feat, mask_row, t + 1, alpha)
    ELSE forward_row(feat, mask_row, t + 1,
            Table([s \in States |->
                SumOver(Table([r \in States |->
                            alpha[r] * Weight(transition_matrix(s, r)) * Weight(feat[t][s])]),
                        States)]))

crf_denominator(features, mask) ==
    Table([b \in 1..Len(features) |->
        LogOf(forward_row(features[b], mask[b], 1,
                Table([s \in States |-> IF s = sos_idx THEN 1 ELSE 0])))])

\* Mutant: the minus sign in front of torch.mean is lost.
get_loss_sign_lost(word_batch, tag_batch, drop) ==
    LET targets_tensor_train_batch == items2tensor(tag_batch)
        mask == get_mask(word_batch)
        features_rnn == apply_mask(forward_birnn(word_batch, drop), mask)
        num == crf_numerator(features_rnn, targets_tensor_train_batch, mask)
        denom == crf_denominator(features_rnn, mask)
    IN  [numerator |-> num, denominator |-> denom,
         nll_loss |-> LogMean([b \in 1..Len(num) |-> LogSub(num[b], denom[b])])]

\* lines 57-64: get_loss; drop is the set of positions self.dropout zeroes
get_loss(word_batch, tag_batch, drop) ==
    LET targets_tensor_train_batch == items2tensor(tag_batch)
        mask == get_mask(word_batch)
        features_rnn == apply_mask(forward_birnn(word_batch, drop), mask)
        num == crf_numerator(features_rnn, targets_tensor_train_batch, mask)
        denom == crf_denominator(features_rnn, mask)
        mean == LogMean([b \in 1..Len(num) |-> LogSub(num[b], denom[b])])
    IN  [numerator |-> num, denominator |-> denom,
         nll_loss |-> [sum |-> LogNeg(mean.sum), count |-> mean.count]]

\* gold tag sequences for a batch: one real tag per word
GoldTagsFor(word_batch) ==
    {ts \in [1..Len(word_batch) -> SeqsUpTo(1..class_num, max_seq_len(word_batch))] :
        \A b \in 1..Len(word_batch) : Len(ts[b]) = Len(word_batch[b])}

\* entry of get_loss with an arbitrary non-empty batch, its gold tags and an
\* arbitrary outcome of dropout
LossInit ==
    /\ word_sequences_train_batch \in SeqsUpTo(WordSeqs, MaxTrainBatch) \ {<<>>}
    /\ tag_sequences_train_batch \in GoldTagsFor(word_sequences_train_batch)
    /\ dropout_hit \in SUBSET (1..max_seq_len(word_sequences_train_batch))
    /\ numerator = <<>>
    /\ denominator = <<>>
    /\ nll_loss = <<>>
    /\ lpc = "call"

\* lines 57-64: the call
GetLoss ==
    /\ lpc = "call"
    /\ LET r == get_loss(word_sequences_train_batch, tag_sequences_train_batch, dropout_hit)
       IN  /\ numerator' = r.numerator
           /\ denominator' = r.denominator
           /\ nll_loss' = r.nll_loss
    /\ lpc' = "done"
    /\ UNCHANGED <<word_sequences_train_batch, tag_sequences_train_batch, dropout_hit>>

PredIdle ==
    /\ word_sequences = <<>>
    /\ batch_size = 1
    /\ n = 0
    /\ output_tag_sequences = <<>>
    /\ slices = <<>>
    /\ ppc = "idle"

LossIdle ==
    /\ word_sequences_train_batch = <<>>
    /\ tag_sequences_train_batch = <<>>
    /\ dropout_hit = {}
    /\ numerator = <<>>
    /\ denominator = <<>>
    /\ nll_loss = <<>>
    /\ lpc = "idle"

InitEval == EvalInit /\ PredIdle /\ LossIdle
NextEval ==
    \/ EvalPair /\ UNCHANGED <<predVars, lossVars>>
    \/ EvalReturn /\ UNCHANGED <<predVars, lossVars>>
SpecEval == InitEval /\ [][NextEval]_vars

InitPredict == EvalIdle /\ PredInit /\ LossIdle
NextPredict ==
    \/ PredictBatch /\ UNCHANGED <<evalVars, lossVars>>
    \/ PredictReturn /\ UNCHANGED <<evalVars, lossVars>>
SpecPredict == InitPredict /\ [][NextPredict]_vars

InitLoss == EvalIdle /\ PredIdle /\ LossInit
NextLoss == GetLoss /\ UNCHANGED <<evalVars, predVars>>
SpecLoss == InitLoss /\ [][NextLoss]_vars

(***************************************************************************)
(* Evaluator: quantities the properties speak about                        *)
(***************************************************************************)
\* number of sequence pairs zip() yields for the current arguments
Paired == zip_len(targets_tag_components_sequences, outputs_tag_components_sequences)

\* gold / predicted spans in the first p pairs
RECURSIVE SpansIn(_, _)
SpansIn(corpus, p) == IF p = 0 THEN 0 ELSE Len(corpus[p]) + SpansIn(corpus, p - 1)

\* gold spans <<p, t>> of the first q pairs that a predicted span of the SAME pair equals
MatchedGold(q) ==
    {pt \in (1..q) \X (1..MaxSpans) :
        /\ pt[2] <= Len(targets_tag_components_sequences[pt[1]])
        /\ \E o \in 1..Len(outputs_tag_components_sequences[pt[1]]) :
              is_equal(outputs_tag_components_sequences[pt[1]][o],
                       targets_tag_components_sequences[pt[1]][pt[2]],
                       match_alpha_ratio)}

IsValue(frac, v) == frac.num = v * frac.den

\* C5 as stated: ratio 1.0 and predicted = gold give TP = number of spans,
\* FP = 0, FN = 0 and F1 = 100, for any corpus.
C5_IdenticalGivesF1_100 ==
    (epc = "done" /\ match_alpha_ratio = 1000
        /\ outputs_tag_components_sequences = targets_tag_components_sequences)
    => /\ ret.TP = SumLens(targets_tag_components_sequences)
       /\ ret.FP = 0
       /\ ret.FN = 0
       /\ IsValue(ret.F1, 100)

\* C5 amended: ratio 1.0 and predicted = gold give TP = number of spans, FP = 0,
\* FN = 0; F1 = 100 when the corpus holds at least one span and F1 = 0 when it
\* holds none.
C5_IdenticalCorpus ==
    (epc = "done" /\ match_alpha_ratio = 1000
        /\ outputs_tag_components_sequences = targets_tag_components_sequences)
    => /\ ret.TP = SumLens(targets_tag_components_sequences)
       /\ ret.FP = 0
       /\ ret.FN = 0
       /\ (SumLens(targets_tag_components_sequences) > 0 => IsValue(ret.F1, 100))
       /\ (SumLens(targets_tag_components_sequences) = 0 => IsValue(ret.F1, 0))

C5_Witness ==
    /\ epc = "done" /\ match_alpha_ratio = 1000
    /\ outputs_tag_components_sequences = targets_tag_components_sequences
    /\ Len(targets_tag_components_sequences) = 2
    /\ Len(targets_tag_components_sequences[1]) = 1
    /\ Len(targets_tag_components_sequences[2]) = 1
    /\ ret.TP = 2 /\ IsValue(ret.F1, 100)

\* C6: the return never divides by zero, the three rates are the stated
\* functions of the accumulated counters, each lies in 0..100, and each is 0
\* whenever TP = 0 (the empty corpus included).
C6_RatesWellDefined ==
    epc = "done" =>
        /\ ret.Precision.den >= 1 /\ ret.Recall.den >= 1 /\ ret.F1.den >= 1
        /\ ret.Precision.num * Max(TP + FP, 1) = 100 * TP * ret.Precision.den
        /\ ret.Recall.num * Max(TP + FN, 1) = 100 * TP * ret.Recall.den
        /\ ret.F1.num * Max(2 * TP + FP + FN, 1) = 100 * 2 * TP * ret.F1.den
        /\ \A r \in {ret.Precision, ret.Recall, ret.F1} :
              /\ 0 <= r.num
              /\ r.num <= 100 * r.den
              /\ (TP = 0 => r.num = 0)
        /\ <<ret.TP, ret.FP, ret.FN>> = <<TP, FP, FN>>

C6_Witness ==
    /\ epc = "done"
    /\ TP = 1 /\ FP = 1 /\ FN = 1
    /\ ret.Precision = [num |-> 100, den |-> 2]
    /\ ret.F1 = [num |-> 200, den |-> 4]

\* C8: the counters start at 0 and are accumulated over the pairs without
\* reset: after any number of pairs TP + FN is the number of gold spans in the
\* pairs consumed and FP is at most the number of predicted spans in them; on
\* return this covers all paired sequences.
C8_CounterAccounting ==
    /\ pair <= Paired
    /\ (pair = 0 => TP = 0 /\ FN = 0 /\ FP = 0)
    /\ TP + FN = SpansIn(targets_tag_components_sequences, pair)
    /\ FP <= SpansIn(outputs_tag_components_sequences, pair)
    /\ (epc = "done" =>
          /\ pair = Paired
          /\ ret.TP + ret.FN = SpansIn(targets_tag_components_sequences, Paired)
          /\ ret.FP <= SpansIn(outputs_tag_components_sequences, Paired))

C8_Witness ==
    /\ epc = "done" /\ pair = 2
    /\ Len(targets_tag_components_sequences[1]) = 1
    /\ Len(targets_tag_components_sequences[2]) = 1
    /\ TP = 1 /\ FN = 1 /\ FP = 1

\* C9: matching is confined to one sequence pair and is non-exclusive: TP counts
\* exactly the gold spans that some predicted span of the same pair equals, a
\* matched predicted span staying available for further gold spans.
C9_MatchingPerPairNonExclusive ==
    /\ TP = Cardinality(MatchedGold(pair))
    /\ (epc = "done" => ret.TP = Cardinality(MatchedGold(Paired)))

\* one predicted span makes two gold spans of its sequence count as TP
C9_Witness ==
    /\ epc = "done"
    /\ Paired >= 1
    /\ Len(outputs_tag_components_sequences[1]) = 1
    /\ Len(targets_tag_components_sequences[1]) = 2
    /\ ret.TP = 2
    /\ ret.TP > SumLens(outputs_tag_components_sequences)
    /\ ret.TP + ret.FP # SumLens(outputs_tag_components_sequences)

\* C10: with the same number of sequences on both sides, the call with gold and
\* predicted swapped has FP equal to this call's FN and FN equal to this call's
\* FP (TP may differ).
Swapped ==
    get_f1_from_components_sequences(outputs_tag_components_sequences,
                                     targets_tag_components_sequences,
                                     match_alpha_ratio)

C10_SwapExchangesFPandFN ==
    (epc = "done"
        /\ Len(targets_tag_components_sequences) = Len(outputs_tag_components_sequences))
    => /\ Swapped.FP = ret.FN
       /\ Swapped.FN = ret.FP

C10_Witness ==
    /\ epc = "done"
    /\ Len(targets_tag_components_sequences) = Len(outputs_tag_components_sequences)
    /\ Swapped.TP # ret.TP
    /\ ret.FP = 1 /\ ret.FN = 0
    /\ Swapped.FP = 0 /\ Swapped.FN = 1

(***************************************************************************)
(* Prediction: quantities the properties speak about                       *)
(***************************************************************************)
NumSeqs == Len(word_sequences)

\* number of sequences in the k-th sub-batch passed to predict_idx_from_words
SliceSize(k) == slices[k][2] - slices[k][1]

\* the k-th sub-batch itself
SliceOf(k) == Slice(word_sequences, slices[k][1], slices[k][2])

\* the tags of one sequence decoded on its own
DecodedAlone(seq) == idx2items(predict_idx_from_words(<<seq>>))[1]

\* C1 as stated: on return every input index lies in exactly one sub-batch and
\* the result holds N tag sequences, the k-th being the decoding of input k.
C1_EverySequenceDecodedOnce ==
    ppc = "done" =>
        /\ \A q \in 0..(NumSeqs - 1) :
              Cardinality({k \in 1..Len(slices) :
                              slices[k][1] <= q /\ q < slices[k][2]}) = 1
        /\ Len(output_tag_sequences) = NumSeqs
        /\ \A q \in 1..NumSeqs :
              output_tag_sequences[q] = DecodedAlone(word_sequences[q])

\* What the code does give when batch_size <= N (or N = 0).
PredictCoversWhenBatchFits ==
    (ppc = "done" /\ (batch_size <= NumSeqs \/ NumSeqs = 0)) =>
        /\ Len(output_tag_sequences) = NumSeqs
        /\ \A q \in 1..NumSeqs :
              output_tag_sequences[q] = DecodedAlone(word_sequences[q])

\* C2 as stated: the result equals decoding all N sequences in one call,
\* whatever the batch_size (N >= 1: the one call needs a non-empty batch).
C2_BatchSizeIndependent ==
    (ppc = "done" /\ NumSeqs >= 1) =>
        output_tag_sequences = idx2items(predict_idx_from_words(word_sequences))

\* C3 as stated: every sub-batch but the last holds exactly batch_size
\* sequences and none holds more than batch_size.
C3_NoSubBatchAboveBatchSize ==
    \A k \in 1..Len(slices) :
        /\ SliceSize(k) <= batch_size
        /\ (k < batch_num => SliceSize(k) = batch_size)

\* C3 amended: there are floor(N / batch_size) sub-batches; every one but the
\* last holds exactly batch_size sequences and the last holds
\* batch_size + (N mod batch_size), so it is never smaller and may be larger
\* than batch_size (below 2 * batch_size).
C3_LastSubBatchTakesRemainder ==
    /\ Len(slices) = n
    /\ n <= batch_num
    /\ (ppc = "done" => n = NumSeqs \div batch_size)
    /\ \A k \in 1..Len(slices) :
          /\ (k < batch_num => SliceSize(k) = batch_size)
          /\ (k = batch_num => SliceSize(k) = batch_size + (NumSeqs % batch_size))
          /\ SliceSize(k) >= batch_size
          /\ SliceSize(k) < 2 * batch_size

C3_Witness ==
    /\ ppc = "done"
    /\ NumSeqs = 5 /\ batch_size = 2
    /\ slices = << <<0, 2>>, <<2, 5>> >>

\* is the list non-increasing in length
NonIncreasingLens(seqs) ==
    \A q \in 1..(Len(seqs) - 1) : Len(seqs[q]) >= Len(seqs[q + 1])

\* C4: for every sub-batch handed to predict_idx_from_words the sequences are
\* decoded in non-increasing length order, and the entries come back in the
\* caller's order: as many as were given, entry q being the decoding of the
\* caller's q-th sequence, with one tag per word.
C4_SortRestoreInvisible ==
    \A k \in 1..Len(slices) :
        LET batch == SliceOf(k)
            order == argsort_sequences_by_lens(batch)
        IN  /\ NonIncreasingLens(get_sequences_by_indices(batch, order.sort_indices))
            /\ Len(output_tag_sequences) >= slices[k][1] + Len(batch)
            /\ \A q \in 1..Len(batch) :
                  /\ output_tag_sequences[slices[k][1] + q] = DecodedAlone(batch[q])
                  /\ Len(output_tag_sequences[slices[k][1] + q]) = Len(batch[q])
            /\ (k = Len(slices) =>
                  Len(output_tag_sequences) = slices[k][1] + Len(batch))

\* a sub-batch with equal-length sequences that the sort really reorders
C4_Witness ==
    /\ ppc = "done"
    /\ Len(slices) = 1
    /\ SliceOf(1) = << <<"w1">>, <<"w2", "w1", "w1">>, <<"w2">>, <<"w1", "w2">> >>
    /\ output_tag_sequences =
          << <<"O">>, <<"O", "B-PER", "O">>, <<"B-PER">>, <<"B-PER", "O">> >>

(***************************************************************************)
(* Training loss                                                           *)
(***************************************************************************)
\* C7: for every sequence of the batch the gold path score is at most the log
\* partition, and the returned loss, the batch mean of their difference, is
\* not negative.
C7_LossNonNegative ==
    lpc = "done" =>
        /\ Len(numerator) = Len(word_sequences_train_batch)
        /\ Len(denominator) = Len(word_sequences_train_batch)
        /\ \A b \in 1..Len(numerator) : LogLeq(numerator[b], denominator[b])
        /\ nll_loss.count = Len(word_sequences_train_batch)
        /\ nll_loss.sum.num >= nll_loss.sum.den

\* a batch of two sequences of different length, dropout acting, loss > 0
C7_Witness ==
    /\ lpc = "done"
    /\ Len(word_sequences_train_batch) = 2
    /\ Len(word_sequences_train_batch[1]) # Len(word_sequences_train_batch[2])
    /\ dropout_hit # {}
    /\ nll_loss.sum.num > nll_loss.sum.den

====
